---- MODULE Spec2Model ----
(***************************************************************************)
(* Model of flyway-rs: MigrationRunner::migrate (flyway/src/lib.rs)        *)
(* composed with RbatisMigrationDriver (flyway-rbatis/src/lib.rs), which   *)
(* is both the MigrationStateManager and the MigrationExecutor, on the     *)
(* standard (non-TDengine) dialect.                                        *)
(*                                                                         *)
(* The database is the pair (table, committed): `table` is the migrations  *)
(* state table (version is its primary key, so one status per version) and *)
(* `committed` counts, per version, the transactions of that changelog     *)
(* that were committed.  Every database round trip can fail.               *)
(***************************************************************************)
EXTENDS Integers, Sequences, FiniteSets

\* ------------------------------------------------------------------ bounds
MaxCatalog == 3   \* changelogs in the store
MaxStmts == 2     \* statements in one changelog
MaxRuns == 3      \* migrate() calls in one behaviour
MaxOps == 3       \* executor operations the tasks invoke in one behaviour
MaxLen == 4       \* bytes in one changelog text
MaxLines == 4     \* lines in one changelog text built from whole lines
MaxCalls == 2     \* state manager calls in one behaviour
MaxDigits == 2    \* digits in the version part of a file name
MaxFiles == 2     \* entries in the migrations directory

\* Versions the store draws from: one and two decimal digits.
VersionPool == {1, 2, 3, 10}

\* ------------------------------------------------------------ Option<T>
None == <<>>
Some(x) == <<x>>

\* ------------------------------------------------- version strings (u32)
\* u32::to_string: the decimal digits, most significant first.
RECURSIVE VersionToString(_)
VersionToString(n) ==
    IF n < 10 THEN <<n>> ELSE Append(VersionToString(n \div 10), n % 10)

\* str::parse::<u32>: the numeric value of a digit string.
RECURSIVE Parse(_)
Parse(s) ==
    IF Len(s) = 0 THEN 0
    ELSE 10 * Parse(SubSeq(s, 1, Len(s) - 1)) + s[Len(s)]

\* str::cmp: lexicographic comparison of the bytes; -1 Less, 0 Equal, 1 Greater.
RECURSIVE StrCmp(_, _)
StrCmp(a, b) ==
    IF Len(a) = 0 /\ Len(b) = 0 THEN 0
    ELSE IF Len(a) = 0 THEN -1
    ELSE IF Len(b) = 0 THEN 1
    ELSE IF Head(a) < Head(b) THEN -1
    ELSE IF Head(a) > Head(b) THEN 1
    ELSE StrCmp(Tail(a), Tail(b))

\* ChangelogFile::from_string: the version string and the content, here the
\* number of statements the content splits into.
ChangelogFile(v, n) == [version |-> VersionToString(v), nstmts |-> n]

\* The comparator of migrate()'s sort_by: a.version().cmp(b.version()).
VersionCmp(a, b) == StrCmp(a.version, b.version)

\* slice::sort_by is a stable sort: insert each element after the elements
\* that do not compare Greater than it.
RECURSIVE InsertSorted(_, _)
InsertSorted(s, x) ==
    IF Len(s) = 0 THEN <<x>>
    ELSE IF VersionCmp(Head(s), x) = 1 THEN <<x>> \o s
    ELSE <<Head(s)>> \o InsertSorted(Tail(s), x)

RECURSIVE SortBy(_)
SortBy(s) ==
    IF Len(s) = 0 THEN <<>>
    ELSE InsertSorted(SortBy(SubSeq(s, 1, Len(s) - 1)), s[Len(s)])

\* The filter with `>=` for `>`: the highest deployed version stays pending.
IsPending_Inclusive(m, highest) ==
    IF highest = None THEN TRUE ELSE Parse(m.version) >= highest[1]

\* The filter one off: the version right above the high-water mark is dropped.
IsPending_OffByOne(m, highest) ==
    IF highest = None THEN TRUE ELSE Parse(m.version) > highest[1] + 1

\* The filter closure of migrate(): keep a changelog when nothing is deployed
\* or when its parsed version is greater than the highest deployed version.
IsPending(m, highest) ==
    IF highest = None THEN TRUE ELSE Parse(m.version) > highest[1]

\* ------------------------------------------------------ the state table
SetMax(S) == CHOOSE x \in S : \A y \in S : y <= x

SetMin(S) == CHOOSE x \in S : \A y \in S : x <= y

Deployed_AnyRow(t) == {v \in DOMAIN t : t[v] # "absent"}

Deployed(t) == {v \in DOMAIN t : t[v] = "deployed"}

\* SELECT MAX(version) ... WHERE status='deployed'
HighestVersionOf(t) == IF Deployed(t) = {} THEN None ELSE Some(SetMax(Deployed(t)))

\* SELECT MIN(version) ... WHERE status='deployed'
LowestVersionOf(t) == IF Deployed(t) = {} THEN None ELSE Some(SetMin(Deployed(t)))

\* SELECT version ... WHERE status='deployed' ORDER BY version asc
RECURSIVE AscendingSeq(_)
AscendingSeq(S) ==
    IF S = {} THEN <<>> ELSE <<SetMin(S)>> \o AscendingSeq(S \ {SetMin(S)})

ListVersionsOf(t) == AscendingSeq(Deployed(t))

\* ------------------------------------------------------------ the errors
\* MigrationsError: the constructors of flyway/src/lib.rs.
migration_database_step_failed(last) ==
    [kind |-> "MigrationDatabaseStepFailed", last_successful_version |-> last]

migration_database_failed(last) ==
    [kind |-> "MigrationDatabaseFailed", last_successful_version |-> last]

migration_setup_failed ==
    [kind |-> "MigrationSetupFailed", last_successful_version |-> None]

migration_versioning_failed ==
    [kind |-> "MigrationVersioningFailed", last_successful_version |-> None]

NoError == [kind |-> "none", last_successful_version |-> None]

\* What migrate() returned: Ok(Option<u32>) or Err(MigrationsError).
Ok(h) == [tag |-> "Ok", value |-> h, error |-> NoError]
Err(e) == [tag |-> "Err", value |-> None, error |-> e]
NoResult == [tag |-> "none", value |-> None, error |-> NoError]

NoChangelog == [version |-> <<>>, nstmts |-> 0]

\* ------------------------------------------------------------- the state
VARIABLES
    store,                    \* MigrationStore::changelogs(): Seq of ChangelogFile
    table,                    \* state table: version -> absent | in_progress | deployed
    committed,                \* version -> number of committed transactions of its changelog
    tx,                       \* RbatisMigrationDriver.tx: None or Some(open transaction)
    pc,                       \* position of migrate()
    migrations,               \* migrate(): the changelogs the loop has still to take
    changelog,                \* migrate(): the changelog of the current iteration
    current_highest_version,  \* migrate(): the local high-water mark
    err,                      \* migrate(): the error held in the Err(err) arm
    result,                   \* what the last migrate() returned
    runs,                     \* migrate() calls so far
    attempted,                \* history: versions begin_version was called for, this run
    calls,                    \* history: begin_version/begin_transaction/execute calls, this run
    previous,                 \* history: the Ok the migrate() before this one returned, if it did
    startTable,               \* history: the state table when this run started
    committedRun,             \* history: versions committed during this run
    failedAt,                 \* history: the version whose execution failed, this run
    execError,                \* history: the error execute_changelog_file returned, this run
    rollbacks,                \* history: the outcomes of the rollback_transaction calls, this run
    dbtx,                     \* executor tasks: the database's transactions, handle id -> status
    task,                     \* executor tasks: each task's position in its executor operation
    ops,                      \* executor tasks: operations invoked so far
    content,                  \* tokenizer: the changelog text, a sequence of bytes
    position,                 \* tokenizer: bytes of `content` consumed
    state,                    \* tokenizer: SqlStatementIteratorState
    ch,                       \* tokenizer: next()'s look-ahead byte
    statement,                \* tokenizer: next()'s statement buffer
    annotation,               \* tokenizer: next()'s annotation buffer
    tpc,                      \* tokenizer: position in next()
    emitted,                  \* tokenizer: what the calls of next() returned
    answer,                   \* state manager: the latest call, its arguments and result
    asked,                    \* state manager: calls made so far
    filename,                 \* directory scan: the entry read_dir yielded last
    infos,                    \* directory scan: the Vec<MigrationInfo> collected so far
    nread                     \* directory scan: entries read_dir has yielded

vars == <<store, table, committed, tx, pc, migrations, changelog,
          current_highest_version, err, result, runs, attempted, calls,
          previous, startTable, committedRun, failedAt, execError, rollbacks,
          dbtx, task, ops,
          content, position, state, ch, statement, annotation, tpc, emitted,
          answer, asked,
          filename, infos, nread>>

dbVars == <<table, committed, tx>>
localVars == <<migrations, changelog, current_highest_version, err>>
histVars == <<attempted, calls, previous, startTable, committedRun, failedAt,
              execError, rollbacks>>
execVars == <<dbtx, task, ops>>
tokVars == <<content, position, state, ch, statement, annotation, tpc, emitted>>
smVars == <<answer, asked>>
scanVars == <<filename, infos, nread>>
runnerVars == <<store, table, committed, pc, localVars, result, runs, histVars>>

\* The cooperative tasks that share one RbatisMigrationDriver.
Tasks == {"t1", "t2"}

\* A task that is in no executor operation.
IdleTask ==
    [pc |-> "idle", call |-> 0, op |-> "none", saw |-> None, handle |-> None,
     result |-> NoResult, stmts |-> <<>>, rejected |-> 0, applied |-> 0]

\* No task uses the executor: migrate() is the only caller of the driver.
NoTasks ==
    /\ dbtx = [k \in 1..MaxOps |-> "unopened"]
    /\ task = [t \in Tasks |-> IdleTask]
    /\ ops = 0

\* No call of the state manager has been made.
NoAnswer ==
    [op |-> "none", version |-> 0, before |-> <<>>, result |-> NoResult]

\* The state manager is called by migrate() only.
NoManager ==
    /\ answer = NoAnswer
    /\ asked = 0

\* No directory is scanned.
NoScan ==
    /\ filename = None
    /\ infos = <<>>
    /\ nread = 0

\* ------------------------------------------- the statement tokenizer: bytes
SINGLE_QUOTE1 == 39
SINGLE_QUOTE2 == 96
DOUBLE_QUOTE == 34
SEMICOLON == 59
BACKSLASH == 92
MINUS == 45
LINEFEED == 10
\* The bytes of "--! " that are not named above, and a byte of the `_` arm.
BANG == 33
SPACE == 32
LETTER == 97

\* The bytes changelog texts are made of.
Alphabet ==
    {SINGLE_QUOTE1, SINGLE_QUOTE2, DOUBLE_QUOTE, SEMICOLON, BACKSLASH, MINUS,
     LINEFEED, SPACE, LETTER}

Quotes == {SINGLE_QUOTE1, SINGLE_QUOTE2, DOUBLE_QUOTE}

\* The changelog texts of at most MaxLen bytes.
Contents == UNION {[1..n -> Alphabet] : n \in 0..MaxLen}

\* SqlStatementIteratorState.
Normal == [tag |-> "Normal", q |-> 0, prev |-> None, comment |-> <<>>]
Quoted(q) == [tag |-> "Quoted", q |-> q, prev |-> None, comment |-> <<>>]
Escaped(q) == [tag |-> "Escaped", q |-> q, prev |-> None, comment |-> <<>>]
Comment(prev_state, comment) ==
    [tag |-> "Comment", q |-> 0, prev |-> Some(prev_state), comment |-> comment]

\* char::is_whitespace on the ASCII range, as str::trim uses it.
IsWhitespace(b) == b \in {9, 10, 11, 12, 13, 32}

RECURSIVE TrimStart(_)
TrimStart(s) ==
    IF s # <<>> /\ IsWhitespace(Head(s)) THEN TrimStart(Tail(s)) ELSE s

RECURSIVE TrimEnd(_)
TrimEnd(s) ==
    IF s # <<>> /\ IsWhitespace(s[Len(s)])
    THEN TrimEnd(SubSeq(s, 1, Len(s) - 1))
    ELSE s

Trim(s) == TrimEnd(TrimStart(s))

StartsWith(s, p) == Len(s) >= Len(p) /\ SubSeq(s, 1, Len(p)) = p

\* "--! "
AnnotationPrefix == <<MINUS, MINUS, BANG, SPACE>>

\* What one iteration of the loop of next() leaves behind.
Outcome(st, stmt, ann, brk) ==
    [state |-> st, statement |-> stmt, annotation |-> ann, brk |-> brk]

\* The Comment arm pushing the buffered `-` twice.
CommentArm_Duplicates(st, stmt, ann, c) ==
    IF Len(st.comment) < 2
    THEN Outcome(st.prev[1], stmt \o st.comment \o st.comment, ann, FALSE)
    ELSE Outcome(Comment(st.prev[1], Append(st.comment, c)), stmt, ann, FALSE)

\* The Comment arm shared by every byte but LINEFEED and MINUS: after a lone
\* `-` the comment buffer goes to the statement and the state reverts (the
\* byte itself is not pushed), otherwise the byte joins the comment.
CommentArm(st, stmt, ann, c) ==
    IF Len(st.comment) < 2
    THEN Outcome(st.prev[1], stmt \o st.comment, ann, FALSE)
    ELSE Outcome(Comment(st.prev[1], Append(st.comment, c)), stmt, ann, FALSE)

\* The LINEFEED arm that ends every comment alike and keeps no payload.
Linefeed_DropsPayload(st, stmt, ann, c) ==
    IF st.tag = "Comment"
    THEN Outcome(st.prev[1], stmt, ann, FALSE)
    ELSE Outcome(st, Append(stmt, c), ann, FALSE)

Linefeed(st, stmt, ann, c) ==
    IF st.tag = "Comment"
    THEN LET comment_string == TrimStart(st.comment)
         IN  Outcome(st.prev[1], stmt,
                     IF StartsWith(comment_string, AnnotationPrefix)
                     THEN ann \o SubSeq(comment_string, 5, Len(comment_string))
                     ELSE ann,
                     FALSE)
    ELSE Outcome(st, Append(stmt, c), ann, FALSE)

Minus(st, stmt, ann, c) ==
    CASE st.tag = "Normal" -> Outcome(Comment(st, <<MINUS>>), stmt, ann, FALSE)
      [] st.tag = "Comment" ->
            Outcome(Comment(st.prev[1], Append(st.comment, c)), stmt, ann, FALSE)
      [] OTHER -> Outcome(st, Append(stmt, c), ann, FALSE)

SingleQuote1(st, stmt, ann, c) ==
    CASE st.tag = "Normal" -> Outcome(Quoted(SINGLE_QUOTE1), Append(stmt, c), ann, FALSE)
      [] st.tag = "Escaped" -> Outcome(Quoted(st.q), Append(stmt, c), ann, FALSE)
      [] st.tag = "Quoted" ->
            IF c = st.q
            THEN Outcome(Normal, Append(stmt, c), ann, FALSE)
            ELSE Outcome(st, stmt, ann, FALSE)
      [] st.tag = "Comment" -> CommentArm(st, stmt, ann, c)

\* The SINGLE_QUOTE2 arm and the DOUBLE_QUOTE arm, which are the same code.
OtherQuote(st, stmt, ann, c) ==
    CASE st.tag = "Normal" -> Outcome(Quoted(SINGLE_QUOTE1), Append(stmt, c), ann, FALSE)
      [] st.tag = "Escaped" -> Outcome(Quoted(st.q), Append(stmt, c), ann, FALSE)
      [] st.tag = "Quoted" ->
            Outcome(IF c = st.q THEN Normal ELSE st, Append(stmt, c), ann, FALSE)
      [] st.tag = "Comment" -> CommentArm(st, stmt, ann, c)

Semicolon_BreaksInQuoted(st, stmt, ann, c) ==
    CASE st.tag = "Comment" -> CommentArm(st, stmt, ann, c)
      [] OTHER -> Outcome(st, stmt, ann, TRUE)

Semicolon(st, stmt, ann, c) ==
    CASE st.tag = "Quoted" -> Outcome(st, Append(stmt, c), ann, FALSE)
      [] st.tag = "Comment" -> CommentArm(st, stmt, ann, c)
      [] OTHER -> Outcome(st, stmt, ann, TRUE)

Backslash(st, stmt, ann, c) ==
    CASE st.tag = "Quoted" -> Outcome(Escaped(st.q), Append(stmt, c), ann, FALSE)
      [] st.tag = "Escaped" -> Outcome(Quoted(st.q), Append(stmt, c), ann, FALSE)
      [] st.tag = "Comment" -> CommentArm(st, stmt, ann, c)
      [] OTHER -> Outcome(st, Append(stmt, c), ann, FALSE)

\* The `_` arm: every other byte.
OtherByte(st, stmt, ann, c) ==
    CASE st.tag = "Comment" -> CommentArm(st, stmt, ann, c)
      [] OTHER -> Outcome(st, Append(stmt, c), ann, FALSE)

\* match current_char { ... }
Match(st, stmt, ann, c) ==
    CASE c = LINEFEED -> Linefeed(st, stmt, ann, c)
      [] c = MINUS -> Minus(st, stmt, ann, c)
      [] c = SINGLE_QUOTE1 -> SingleQuote1(st, stmt, ann, c)
      [] c = SINGLE_QUOTE2 -> OtherQuote(st, stmt, ann, c)
      [] c = DOUBLE_QUOTE -> OtherQuote(st, stmt, ann, c)
      [] c = SEMICOLON -> Semicolon(st, stmt, ann, c)
      [] c = BACKSLASH -> Backslash(st, stmt, ann, c)
      [] OTHER -> OtherByte(st, stmt, ann, c)

\* "may_fail", "true", "false" and the ": " between a key and its value.
MayFailKey == <<109, 97, 121, 95, 102, 97, 105, 108>>
TrueBytes == <<116, 114, 117, 101>>
FalseBytes == <<102, 97, 108, 115, 101>>
KeyValueSeparator == <<58, 32>>

\* The pieces of s between its line feeds.
RECURSIVE SplitLines(_)
SplitLines(s) ==
    IF \A i \in 1..Len(s) : s[i] # LINEFEED
    THEN <<s>>
    ELSE LET i == SetMin({j \in 1..Len(s) : s[j] = LINEFEED})
         IN  <<SubSeq(s, 1, i - 1)>> \o SplitLines(SubSeq(s, i + 1, Len(s)))

\* Where ": " occurs in a line.
SeparatorsIn(line) ==
    {i \in 1..(Len(line) - 1) : SubSeq(line, i, i + 1) = KeyValueSeparator}

\* serde_yaml::from_slice::<SqlStatementAnnotation>(buf).ok() on a block
\* mapping of plain scalars: one `key: value` per non-blank line.  A line
\* without exactly one ": ", a key that occurs twice, a may_fail that is not
\* a boolean and a document without entries are errors; keys the struct
\* does not have are ignored and a missing may_fail is None.
FromSlice(buf) ==
    LET lines == SelectSeq(SplitLines(buf), LAMBDA l : Trim(l) # <<>>)
        KeyOf(l) == SubSeq(l, 1, SetMin(SeparatorsIn(l)) - 1)
        ValueOf(l) == Trim(SubSeq(l, SetMin(SeparatorsIn(l)) + 2, Len(l)))
        wellFormed ==
            /\ lines # <<>>
            /\ \A i \in 1..Len(lines) : Cardinality(SeparatorsIn(lines[i])) = 1
            /\ \A i, j \in 1..Len(lines) :
                    KeyOf(lines[i]) = KeyOf(lines[j]) => i = j
            /\ \A i \in 1..Len(lines) :
                    KeyOf(lines[i]) = MayFailKey =>
                        ValueOf(lines[i]) \in {TrueBytes, FalseBytes}
        entries == {i \in 1..Len(lines) : KeyOf(lines[i]) = MayFailKey}
    IN  IF ~wellFormed THEN None
        ELSE IF entries = {} THEN Some([may_fail |-> None])
        ELSE Some([may_fail |->
                    Some(ValueOf(lines[CHOOSE i \in entries : TRUE]) = TrueBytes)])

\* next() without the trim: the collected bytes are returned as they are.
Item_NoTrim(stmt, ann) ==
    IF Len(stmt) > 0
    THEN Some([statement |-> stmt,
               annotation |-> IF Len(ann) > 0 THEN FromSlice(ann) ELSE None])
    ELSE None

\* The value next() returns for the bytes it collected.
Item(stmt, ann) ==
    IF Len(stmt) > 0
    THEN LET value == Trim(stmt)
         IN  IF Len(value) > 0
             THEN Some([statement |-> value,
                        annotation |-> IF Len(ann) > 0 THEN FromSlice(ann) ELSE None])
             ELSE None
    ELSE None

\* ------------------------------------------------ the statement tokenizer
\* SqlStatementIterator over one changelog text: next() is called until the
\* text is used up and a call has returned None.  One action per iteration
\* of its loop.

\* next_byte(): the byte at `position`, if any.
NextByte == IF position < Len(content) THEN Some(content[position + 1]) ELSE None

\* next_byte() that moves `position` at the end of the content too.
Advance_PastEnd == position + 1

\* next_byte(): `position` afterwards.
Advance == IF position < Len(content) THEN position + 1 ELSE position

\* No changelog text is being tokenized.
NoTokenizer ==
    /\ content = <<>>
    /\ position = 0
    /\ state = Normal
    /\ ch = None
    /\ statement = <<>>
    /\ annotation = <<>>
    /\ tpc = "done"
    /\ emitted = <<>>


\* The version (u32) of the changelog of the current iteration.
Version == Parse(changelog.version)

\* Stores with unique versions, in any order, each changelog with 1..MaxStmts
\* statements.
RECURSIVE InjectiveSeqs(_, _)
InjectiveSeqs(S, n) ==
    IF n = 0 THEN {<<>>}
    ELSE LET shorter == InjectiveSeqs(S, n - 1)
         IN  shorter \cup
             {Append(s, x) : <<s, x>> \in
                 {p \in shorter \X S : \A i \in 1..Len(p[1]) : p[1][i] # p[2]}}

Stores ==
    UNION {
        {[i \in 1..Len(vs) |-> ChangelogFile(vs[i], ns[i])] :
            ns \in [1..Len(vs) -> 1..MaxStmts]}
        : vs \in InjectiveSeqs(VersionPool, MaxCatalog)}

Init ==
    /\ store \in Stores
    /\ table = [v \in VersionPool |-> "absent"]
    /\ committed = [v \in VersionPool |-> 0]
    /\ tx = None
    /\ pc = "idle"
    /\ migrations = <<>>
    /\ changelog = NoChangelog
    /\ current_highest_version = None
    /\ err = NoError
    /\ result = NoResult
    /\ runs = 0
    /\ attempted = <<>>
    /\ calls = 0
    /\ previous = NoResult
    /\ startTable = table
    /\ committedRun = {}
    /\ failedAt = None
    /\ execError = NoError
    /\ rollbacks = <<>>
    /\ NoTasks
    /\ NoTokenizer
    /\ NoManager
    /\ NoScan

\* A database earlier runs have left behind, on which one migrate() is made:
\* every row of a catalog version is absent, in_progress (orphaned by a run
\* that was rolled back) or deployed (committed once).
InitExisting ==
    /\ store \in Stores
    /\ \E status \in [VersionPool -> {"absent", "in_progress", "deployed"}] :
        /\ \A v \in VersionPool :
               status[v] # "absent" => \E i \in 1..Len(store) : Parse(store[i].version) = v
        /\ table = status
        /\ committed = [v \in VersionPool |-> IF status[v] = "deployed" THEN 1 ELSE 0]
    /\ tx = None
    /\ pc = "idle"
    /\ migrations = <<>>
    /\ changelog = NoChangelog
    /\ current_highest_version = None
    /\ err = NoError
    /\ result = NoResult
    /\ runs = MaxRuns - 1
    /\ attempted = <<>>
    /\ calls = 0
    /\ previous = NoResult
    /\ startTable = table
    /\ committedRun = {}
    /\ failedAt = None
    /\ execError = NoError
    /\ rollbacks = <<>>
    /\ NoTasks
    /\ NoTokenizer
    /\ NoManager
    /\ NoScan

\* migrate() returns r: its locals are dropped.
Return(r) ==
    /\ pc' = "idle"
    /\ result' = r
    /\ migrations' = <<>>
    /\ changelog' = NoChangelog
    /\ current_highest_version' = None
    /\ err' = NoError

\* migrate() goes on at position p with its locals as they are.
Goto(p) ==
    /\ pc' = p
    /\ UNCHANGED <<result, localVars>>

\* The head of the for loop: take the next changelog, or leave the loop and
\* return Ok(current_highest_version).
LoopHead(ms, highest) ==
    IF Len(ms) = 0
    THEN Return(Ok(highest))
    ELSE /\ pc' = "begin_version"
         /\ changelog' = Head(ms)
         /\ migrations' = Tail(ms)
         /\ current_highest_version' = highest
         /\ UNCHANGED <<result, err>>

\* A caller invokes migrate().
Migrate ==
    /\ pc = "idle"
    /\ runs < MaxRuns
    /\ runs' = runs + 1
    /\ pc' = "prepare"
    /\ result' = NoResult
    /\ previous' = IF result.tag = "Ok" THEN result ELSE NoResult
    /\ attempted' = <<>>
    /\ calls' = 0
    /\ startTable' = table
    /\ committedRun' = {}
    /\ failedAt' = None
    /\ execError' = NoError
    /\ rollbacks' = <<>>
    /\ UNCHANGED <<store, dbVars, localVars>>
    /\ UNCHANGED <<execVars, tokVars, smVars, scanVars>>

\* state_manager.prepare(): CREATE TABLE IF NOT EXISTS.
Prepare ==
    /\ pc = "prepare"
    /\ \E outcome \in {"ok", "acquire_err", "exec_err"} :
        CASE outcome = "ok" -> Goto("highest_version")
          [] outcome = "acquire_err" -> Return(Err(migration_database_failed(None)))
          [] outcome = "exec_err" -> Return(Err(migration_setup_failed))
    /\ UNCHANGED <<store, dbVars, runs, histVars>>
    /\ UNCHANGED <<execVars, tokVars, smVars, scanVars>>

\* state_manager.highest_version(), then the filter and the sort of the
\* store's changelogs, up to the head of the loop.
HighestVersion ==
    /\ pc = "highest_version"
    /\ \E outcome \in {"ok", "acquire_err", "query_err"} :
        CASE outcome = "ok" ->
                LET highest == HighestVersionOf(table)
                    pending == SelectSeq(store, LAMBDA m : IsPending(m, highest))
                IN  LoopHead(SortBy(pending), highest)
          [] outcome = "acquire_err" -> Return(Err(migration_database_failed(None)))
          [] outcome = "query_err" -> Return(Err(migration_versioning_failed))
    /\ UNCHANGED <<store, dbVars, runs, histVars>>
    /\ UNCHANGED <<execVars, tokVars, smVars, scanVars>>

\* The UPDATE without its WHERE clause: every row of the table is set.
UpdateStatus_NoWhere(t, v, status) ==
    [w \in DOMAIN t |-> IF t[w] = "absent" THEN "absent" ELSE status]

\* UPDATE <table> SET status=<status> where version=<v>
UpdateStatus(t, v, status) ==
    IF t[v] = "absent" THEN t ELSE [t EXCEPT ![v] = status]

\* rows_affected of that UPDATE: the rows its WHERE clause matched.
RowsAffected(t, v) == IF t[v] = "absent" THEN 0 ELSE 1

\* INSERT INTO <table>(ts,version,name,checksum,status) VALUES (...)
InsertRow(t, v, status) == [t EXCEPT ![v] = status]

\* begin_version that takes an in_progress row for a run under way and
\* passes over that version.
BeginVersion_SkipsInProgress ==
    /\ pc = "begin_version"
    /\ attempted' = Append(attempted, Version)
    /\ calls' = calls + 1
    /\ IF table[Version] = "in_progress"
       THEN /\ table' = table
            /\ LoopHead(migrations, current_highest_version)
       ELSE /\ table' = InsertRow(table, Version, "in_progress")
            /\ Goto("begin_transaction")
    /\ UNCHANGED <<store, committed, tx, runs, previous, startTable,
                   committedRun, failedAt, execError, rollbacks>>
    /\ UNCHANGED <<execVars, tokVars, smVars, scanVars>>

\* state_manager.begin_version(&changelog): UPDATE to in_progress, and an
\* INSERT of an in_progress row when the UPDATE matched no row.
BeginVersion ==
    /\ pc = "begin_version"
    /\ attempted' = Append(attempted, Version)
    /\ calls' = calls + 1
    /\ \E outcome \in {"ok", "acquire_err", "update_err", "insert_err"} :
        LET updated == UpdateStatus(table, Version, "in_progress")
            affected == RowsAffected(table, Version)
        IN  CASE outcome = "ok" ->
                    /\ table' = IF affected < 1
                                THEN InsertRow(updated, Version, "in_progress")
                                ELSE updated
                    /\ Goto("begin_transaction")
              [] outcome = "acquire_err" ->
                    /\ table' = table
                    /\ Return(Err(migration_database_failed(None)))
              [] outcome = "update_err" ->
                    /\ table' = table
                    /\ Return(Err(migration_versioning_failed))
              [] outcome = "insert_err" ->
                    /\ affected < 1
                    /\ table' = updated
                    /\ Return(Err(migration_versioning_failed))
    /\ UNCHANGED <<store, committed, tx, runs, previous, startTable,
                   committedRun, failedAt, execError, rollbacks>>
    /\ UNCHANGED <<execVars, tokVars, smVars, scanVars>>

\* executor.begin_transaction(): an error while a transaction is held, else
\* acquire_begin and keep the handle.
BeginTransaction ==
    /\ pc = "begin_transaction"
    /\ calls' = calls + 1
    /\ IF tx # None
       THEN /\ tx' = tx
            /\ Return(Err(migration_database_failed(None)))
       ELSE \E outcome \in {"ok", "begin_err"} :
            CASE outcome = "ok" ->
                    /\ tx' = Some([version |-> Version, applied |-> 0])
                    /\ Goto("execute_changelog_file")
              [] outcome = "begin_err" ->
                    /\ tx' = tx
                    /\ Return(Err(migration_versioning_failed))
    /\ UNCHANGED <<store, table, committed, runs, attempted, previous,
                   startTable, committedRun, failedAt, execError, rollbacks>>
    /\ UNCHANGED <<execVars, tokVars, smVars, scanVars>>

\* The match on the result with its Ok arm taken always: a changelog whose
\* execution failed is committed too.
ExecuteChangelogFile_CommitsFailed ==
    /\ pc = "execute_changelog_file"
    /\ calls' = calls + 1
    /\ IF tx = None
       THEN /\ tx' = tx
            /\ failedAt' = Some(Version)
            /\ execError' = migration_database_failed(None)
            /\ Goto("commit_transaction")
       ELSE \E done \in 0..changelog.nstmts :
            /\ tx' = Some([tx[1] EXCEPT !.applied = done])
            /\ IF done = changelog.nstmts
               THEN UNCHANGED <<failedAt, execError>>
               ELSE /\ failedAt' = Some(Version)
                    /\ execError' = migration_versioning_failed
            /\ Goto("commit_transaction")
    /\ UNCHANGED <<store, table, committed, runs, attempted, previous,
                   startTable, committedRun, rollbacks>>
    /\ UNCHANGED <<execVars, tokVars, smVars, scanVars>>

\* executor.execute_changelog_file(&changelog) and the match on its result:
\* the statements are executed in order inside the held transaction, the
\* first one the database rejects ends the iteration with its error.
ExecuteChangelogFile ==
    /\ pc = "execute_changelog_file"
    /\ calls' = calls + 1
    /\ IF tx = None
       THEN /\ tx' = tx
            /\ failedAt' = Some(Version)
            /\ execError' = migration_database_failed(None)
            /\ pc' = "rollback_transaction"
            /\ err' = migration_database_failed(None)
            /\ UNCHANGED <<result, migrations, changelog, current_highest_version>>
       ELSE \E done \in 0..changelog.nstmts :
            /\ tx' = Some([tx[1] EXCEPT !.applied = done])
            /\ IF done = changelog.nstmts
               THEN /\ UNCHANGED <<failedAt, execError>>
                    /\ Goto("commit_transaction")
               ELSE /\ failedAt' = Some(Version)
                    /\ execError' = migration_versioning_failed
                    /\ pc' = "rollback_transaction"
                    /\ err' = migration_versioning_failed
                    /\ UNCHANGED <<result, migrations, changelog,
                                   current_highest_version>>
    /\ UNCHANGED <<store, table, committed, runs, attempted, previous,
                   startTable, committedRun, rollbacks>>
    /\ UNCHANGED <<execVars, tokVars, smVars, scanVars>>

\* commit_transaction() without the `?`: a failed commit goes on to
\* finish_version.
CommitTransaction_IgnoresFailure ==
    /\ pc = "commit_transaction"
    /\ tx' = None
    /\ IF tx = None
       THEN /\ UNCHANGED <<committed, committedRun>>
            /\ Return(Err(migration_database_failed(None)))
       ELSE \E outcome \in {"ok", "commit_err"} :
            CASE outcome = "ok" ->
                    /\ committed' = [committed EXCEPT ![tx[1].version] = @ + 1]
                    /\ committedRun' = committedRun \cup {tx[1].version}
                    /\ Goto("finish_version")
              [] outcome = "commit_err" ->
                    /\ UNCHANGED <<committed, committedRun>>
                    /\ Goto("finish_version")
    /\ UNCHANGED <<store, table, runs, attempted, calls, previous,
                   startTable, failedAt, execError, rollbacks>>
    /\ UNCHANGED <<execVars, tokVars, smVars, scanVars>>

\* executor.commit_transaction(): take the handle out and commit it.  A commit
\* the database reports as failed has applied nothing.
CommitTransaction ==
    /\ pc = "commit_transaction"
    /\ tx' = None
    /\ IF tx = None
       THEN /\ UNCHANGED <<committed, committedRun>>
            /\ Return(Err(migration_database_failed(None)))
       ELSE \E outcome \in {"ok", "commit_err"} :
            CASE outcome = "ok" ->
                    /\ committed' = [committed EXCEPT ![tx[1].version] = @ + 1]
                    /\ committedRun' = committedRun \cup {tx[1].version}
                    /\ Goto("finish_version")
              [] outcome = "commit_err" ->
                    /\ UNCHANGED <<committed, committedRun>>
                    /\ Return(Err(migration_database_failed(None)))
    /\ UNCHANGED <<store, table, runs, attempted, calls, previous,
                   startTable, failedAt, execError, rollbacks>>
    /\ UNCHANGED <<execVars, tokVars, smVars, scanVars>>

\* state_manager.finish_version(&changelog): UPDATE to deployed, and an
\* INSERT when the UPDATE matched no row; then the local high-water mark is
\* set and the loop goes on.
FinishVersion ==
    /\ pc = "finish_version"
    /\ \E outcome \in {"ok", "acquire_err", "update_err", "insert_err"} :
        LET updated == UpdateStatus(table, Version, "deployed")
            affected == RowsAffected(table, Version)
        IN  CASE outcome = "ok" ->
                    /\ table' = IF affected < 1
                                THEN InsertRow(updated, Version, "in_progress")
                                ELSE updated
                    /\ LoopHead(migrations, Some(Version))
              [] outcome = "acquire_err" ->
                    /\ table' = table
                    /\ Return(Err(migration_database_failed(None)))
              [] outcome = "update_err" ->
                    /\ table' = table
                    /\ Return(Err(migration_versioning_failed))
              [] outcome = "insert_err" ->
                    /\ affected < 1
                    /\ table' = updated
                    /\ Return(Err(migration_versioning_failed))
    /\ UNCHANGED <<store, committed, tx, runs, histVars>>
    /\ UNCHANGED <<execVars, tokVars, smVars, scanVars>>

\* rollback_transaction that puts the handle back when the database fails to
\* roll back.
RollbackTransaction_KeepsFailedHandle ==
    /\ pc = "rollback_transaction"
    /\ \E outcome \in {"ok", "rollback_err"} :
        /\ tx' = IF outcome = "ok" THEN None ELSE tx
        /\ rollbacks' = Append(rollbacks, outcome)
        /\ Return(Err(err))
    /\ UNCHANGED <<store, table, committed, runs, attempted, calls, previous,
                   startTable, committedRun, failedAt, execError>>
    /\ UNCHANGED <<execVars, tokVars, smVars, scanVars>>

\* The Err(err) arm without its return: after the rollback the loop goes on
\* with the next changelog.
RollbackTransaction_Continues ==
    /\ pc = "rollback_transaction"
    /\ tx' = None
    /\ \E outcome \in {"ok", "rollback_err"} :
        /\ rollbacks' = Append(rollbacks, outcome)
        /\ LoopHead(migrations, current_highest_version)
    /\ UNCHANGED <<store, table, committed, runs, attempted, calls, previous,
                   startTable, committedRun, failedAt, execError>>
    /\ UNCHANGED <<execVars, tokVars, smVars, scanVars>>

\* The Err(err) arm with `?` on the rollback: a failed rollback returns its
\* own error.
RollbackTransaction_PropagatesFailure ==
    /\ pc = "rollback_transaction"
    /\ tx' = None
    /\ \E outcome \in {"ok", "rollback_err"} :
        /\ rollbacks' = Append(rollbacks, outcome)
        /\ IF outcome = "ok"
           THEN Return(Err(err))
           ELSE Return(Err(migration_database_failed(None)))
    /\ UNCHANGED <<store, table, committed, runs, attempted, calls, previous,
                   startTable, committedRun, failedAt, execError>>
    /\ UNCHANGED <<execVars, tokVars, smVars, scanVars>>

\* executor.rollback_transaction() in the Err(err) arm: the handle is taken
\* out and rolled back, the outcome is dropped, and migrate() returns err.
RollbackTransaction ==
    /\ pc = "rollback_transaction"
    /\ tx' = None
    /\ \E outcome \in {"ok", "rollback_err"} :
        /\ rollbacks' = Append(rollbacks, outcome)
        /\ Return(Err(err))
    /\ UNCHANGED <<store, table, committed, runs, attempted, calls, previous,
                   startTable, committedRun, failedAt, execError>>
    /\ UNCHANGED <<execVars, tokVars, smVars, scanVars>>

Next ==
    \/ Migrate
    \/ Prepare
    \/ HighestVersion
    \/ BeginVersion
    \/ BeginTransaction
    \/ ExecuteChangelogFile
    \/ CommitTransaction
    \/ FinishVersion
    \/ RollbackTransaction

Spec == Init /\ [][Next]_vars

SpecExisting == InitExisting /\ [][Next]_vars

\* --------------------------------------------- the executor under two tasks
\* The MigrationExecutor operations of RbatisMigrationDriver called directly
\* by cooperative tasks that share the driver.  A task is suspended only at
\* an .await: each action below is the code between two suspension points.
\* tokio's Mutex is held across the awaits of execute_changelog_file, and
\* nothing another task can do meanwhile touches `tx` or the handle in it,
\* so that operation is one step.  Here `tx` holds Some([id, applied]): the
\* database transaction `id` and the statements executed inside it.

\* The changelogs handed to execute_changelog_file: one may_fail flag per
\* statement (SqlStatementAnnotation.may_fail, absent = false).
ChangelogStatements ==
    UNION {[1..n -> BOOLEAN] : n \in 1..MaxStmts}

\* The first database transaction that has not been opened yet.
FreshHandle == SetMin({k \in DOMAIN dbtx : dbtx[k] = "unopened"})

\* A task enters an operation.
Invoke(t) ==
    /\ task[t].pc = "idle"
    /\ ops < MaxOps
    /\ ops' = ops + 1

\* The number of the call task t is in or enters: calls are numbered in the
\* order the tasks make them.
CallOf(t) == IF task[t].pc = "idle" THEN ops + 1 ELSE task[t].call

\* The operation of task t returns r.
Finish(t, op, saw, r) ==
    task' = [task EXCEPT ![t] = [IdleTask EXCEPT !.call = CallOf(t),
                                    !.op = op, !.saw = saw, !.result = r]]

\* begin_transaction up to acquire_begin().await: the is_some() check.
BeginTxCheck_NoCheck(t) ==
    /\ Invoke(t)
    /\ task' = [task EXCEPT ![t] = [IdleTask EXCEPT !.call = CallOf(t),
                    !.pc = "begin_acquire", !.op = "begin_transaction",
                    !.saw = Some(tx)]]
    /\ UNCHANGED <<tx, dbtx>>
    /\ UNCHANGED <<runnerVars, tokVars, smVars, scanVars>>

BeginTxCheck(t) ==
    /\ Invoke(t)
    /\ IF tx # None
       THEN Finish(t, "begin_transaction", Some(tx),
                   Err(migration_database_failed(None)))
       ELSE task' = [task EXCEPT ![t] = [IdleTask EXCEPT !.call = CallOf(t),
                        !.pc = "begin_acquire", !.op = "begin_transaction",
                        !.saw = Some(tx)]]
    /\ UNCHANGED <<tx, dbtx>>
    /\ UNCHANGED <<runnerVars, tokVars, smVars, scanVars>>

\* db.acquire_begin().await and its `?`.
BeginTxAcquire(t) ==
    /\ task[t].pc = "begin_acquire"
    /\ \E outcome \in {"ok", "begin_err"} :
        CASE outcome = "ok" ->
                /\ dbtx' = [dbtx EXCEPT ![FreshHandle] = "open"]
                /\ task' = [task EXCEPT ![t].pc = "begin_set",
                                        ![t].handle = Some(FreshHandle)]
          [] outcome = "begin_err" ->
                /\ dbtx' = dbtx
                /\ Finish(t, "begin_transaction", task[t].saw,
                          Err(migration_versioning_failed))
    /\ UNCHANGED <<tx, ops>>
    /\ UNCHANGED <<runnerVars, tokVars, smVars, scanVars>>

\* tx_guard.set(Some(tx)): Cell::set drops the value it replaces, and a
\* dropped handle is neither committed nor rolled back by this code.
BeginTxSet(t) ==
    /\ task[t].pc = "begin_set"
    /\ tx' = Some([id |-> task[t].handle[1], applied |-> 0])
    /\ dbtx' = IF tx = None THEN dbtx ELSE [dbtx EXCEPT ![tx[1].id] = "dropped"]
    /\ Finish(t, "begin_transaction", task[t].saw, Ok(None))
    /\ UNCHANGED ops
    /\ UNCHANGED <<runnerVars, tokVars, smVars, scanVars>>

\* execute_changelog_file: the statements run in order in the held
\* transaction.  `rejected` is the statement the database rejects (0: none);
\* its error leaves the loop through `?`, so no later statement reaches the
\* database.  `applied` counts the statements that were executed.
ExecuteFile(t) ==
    /\ Invoke(t)
    /\ \E stmts \in ChangelogStatements : \E rejected \in 0..Len(stmts) :
        LET applied == IF rejected = 0 THEN Len(stmts) ELSE rejected - 1
            r == IF rejected = 0 THEN Ok(None)
                 ELSE Err(migration_versioning_failed)
        IN  IF tx = None
            THEN /\ rejected = 0
                 /\ tx' = tx
                 /\ task' = [task EXCEPT ![t] = [IdleTask EXCEPT !.call = CallOf(t),
                                !.op = "execute_changelog_file",
                                !.saw = Some(tx), !.stmts = stmts,
                                !.result = Err(migration_database_failed(None))]]
            ELSE /\ tx' = Some([tx[1] EXCEPT !.applied = @ + applied])
                 /\ task' = [task EXCEPT ![t] = [IdleTask EXCEPT !.call = CallOf(t),
                                !.op = "execute_changelog_file",
                                !.saw = Some(tx), !.result = r,
                                !.stmts = stmts, !.rejected = rejected,
                                !.applied = applied]]
    /\ UNCHANGED dbtx
    /\ UNCHANGED <<runnerVars, tokVars, smVars, scanVars>>

\* tx_guard.replace(None) of commit_transaction or rollback_transaction and
\* the None arm of the match that follows.
Take(t, op, next) ==
    /\ Invoke(t)
    /\ tx' = None
    /\ IF tx = None
       THEN Finish(t, op, Some(tx), Err(migration_database_failed(None)))
       ELSE task' = [task EXCEPT ![t] = [IdleTask EXCEPT !.call = CallOf(t),
                        !.pc = next, !.op = op, !.saw = Some(tx),
                        !.handle = Some(tx[1].id)]]
    /\ UNCHANGED dbtx
    /\ UNCHANGED <<runnerVars, tokVars, smVars, scanVars>>

\* tx.commit().await or tx.rollback().await on the handle that was taken.
EndDbTx(t, at, op, done, failed) ==
    /\ task[t].pc = at
    /\ \E outcome \in {"ok", "err"} :
        CASE outcome = "ok" ->
                /\ dbtx' = [dbtx EXCEPT ![task[t].handle[1]] = done]
                /\ Finish(t, op, task[t].saw, Ok(None))
          [] outcome = "err" ->
                /\ dbtx' = [dbtx EXCEPT ![task[t].handle[1]] = failed]
                /\ Finish(t, op, task[t].saw, Err(migration_database_failed(None)))
    /\ UNCHANGED <<tx, ops>>
    /\ UNCHANGED <<runnerVars, tokVars, smVars, scanVars>>

CommitTake(t) == Take(t, "commit_transaction", "commit_db")

CommitDb(t) ==
    EndDbTx(t, "commit_db", "commit_transaction", "committed", "commit_failed")

RollbackTake(t) == Take(t, "rollback_transaction", "rollback_db")

RollbackDb(t) ==
    EndDbTx(t, "rollback_db", "rollback_transaction", "rolled_back",
            "rollback_failed")

\* migrate() is not running: the driver is used by the tasks alone.
NoRunner ==
    /\ store = <<>>
    /\ table = [v \in VersionPool |-> "absent"]
    /\ committed = [v \in VersionPool |-> 0]
    /\ pc = "idle"
    /\ migrations = <<>>
    /\ changelog = NoChangelog
    /\ current_highest_version = None
    /\ err = NoError
    /\ result = NoResult
    /\ runs = 0
    /\ attempted = <<>>
    /\ calls = 0
    /\ previous = NoResult
    /\ startTable = table
    /\ committedRun = {}
    /\ failedAt = None
    /\ execError = NoError
    /\ rollbacks = <<>>

\* A driver as new() builds it (tx: Mutex::new(Cell::new(None))) and tasks
\* that have called nothing yet.
InitExecutor ==
    /\ NoRunner
    /\ tx = None
    /\ NoTasks
    /\ NoTokenizer
    /\ NoManager
    /\ NoScan

NextExecutor ==
    \E t \in Tasks :
        \/ BeginTxCheck(t)
        \/ BeginTxAcquire(t)
        \/ BeginTxSet(t)
        \/ ExecuteFile(t)
        \/ CommitTake(t)
        \/ CommitDb(t)
        \/ RollbackTake(t)
        \/ RollbackDb(t)

SpecExecutor == InitExecutor /\ [][NextExecutor]_vars

\* ------------------------------------------ the state manager called alone
\* The MigrationStateManager operations of RbatisMigrationDriver on the
\* standard dialect, called one after the other on any state table.  Every
\* call acquires a connection and runs its statements; both can fail.

\* A call starts; at most MaxCalls are made.
Ask == asked < MaxCalls /\ asked' = asked + 1

\* Everything the state manager leaves alone.
managerFrame ==
    <<store, committed, tx, pc, localVars, result, runs, histVars, execVars, tokVars,
      scanVars>>

\* The call `op` on version v has returned r.
Answer(op, v, r) ==
    answer' = [op |-> op, version |-> v, before |-> table, result |-> r]

\* begin_version without the INSERT for a missing row.
begin_version_UpdateOnly(v) ==
    /\ Ask
    /\ \E outcome \in {"ok", "acquire_err", "update_err"} :
        CASE outcome = "ok" ->
                /\ table' = UpdateStatus(table, v, "in_progress")
                /\ Answer("begin_version", v, Ok(None))
          [] outcome = "acquire_err" ->
                /\ table' = table
                /\ Answer("begin_version", v, Err(migration_database_failed(None)))
          [] outcome = "update_err" ->
                /\ table' = table
                /\ Answer("begin_version", v, Err(migration_versioning_failed))
    /\ UNCHANGED managerFrame

\* begin_version(changelog_file), changelog_file.version = v.
begin_version(v) ==
    /\ Ask
    /\ \E outcome \in {"ok", "acquire_err", "update_err", "insert_err"} :
        LET updated == UpdateStatus(table, v, "in_progress")
            affected == RowsAffected(table, v)
        IN  CASE outcome = "ok" ->
                    /\ table' = IF affected < 1
                                THEN InsertRow(updated, v, "in_progress")
                                ELSE updated
                    /\ Answer("begin_version", v, Ok(None))
              [] outcome = "acquire_err" ->
                    /\ table' = table
                    /\ Answer("begin_version", v, Err(migration_database_failed(None)))
              [] outcome = "update_err" ->
                    /\ table' = table
                    /\ Answer("begin_version", v, Err(migration_versioning_failed))
              [] outcome = "insert_err" ->
                    /\ affected < 1
                    /\ table' = updated
                    /\ Answer("begin_version", v, Err(migration_versioning_failed))
    /\ UNCHANGED managerFrame

\* finish_version(changelog_file), changelog_file.version = v.
finish_version(v) ==
    /\ Ask
    /\ \E outcome \in {"ok", "acquire_err", "update_err", "insert_err"} :
        LET updated == UpdateStatus(table, v, "deployed")
            affected == RowsAffected(table, v)
        IN  CASE outcome = "ok" ->
                    /\ table' = IF affected < 1
                                THEN InsertRow(updated, v, "in_progress")
                                ELSE updated
                    /\ Answer("finish_version", v, Ok(None))
              [] outcome = "acquire_err" ->
                    /\ table' = table
                    /\ Answer("finish_version", v, Err(migration_database_failed(None)))
              [] outcome = "update_err" ->
                    /\ table' = table
                    /\ Answer("finish_version", v, Err(migration_versioning_failed))
              [] outcome = "insert_err" ->
                    /\ affected < 1
                    /\ table' = updated
                    /\ Answer("finish_version", v, Err(migration_versioning_failed))
    /\ UNCHANGED managerFrame

\* A query: lowest_version(), highest_version() or list_versions().
Query(op, value) ==
    /\ Ask
    /\ \E outcome \in {"ok", "acquire_err", "query_err"} :
        CASE outcome = "ok" -> Answer(op, 0, Ok(value))
          [] outcome = "acquire_err" ->
                Answer(op, 0, Err(migration_database_failed(None)))
          [] outcome = "query_err" ->
                Answer(op, 0, Err(migration_versioning_failed))
    /\ UNCHANGED table
    /\ UNCHANGED managerFrame

lowest_version == Query("lowest_version", LowestVersionOf(table))

highest_version == Query("highest_version", HighestVersionOf(table))

list_versions == Query("list_versions", ListVersionsOf(table))

\* Any state table: every version has no row, an in_progress row or a
\* deployed row.
InitManager ==
    /\ store = <<>>
    /\ table \in [VersionPool -> {"absent", "in_progress", "deployed"}]
    /\ committed = [v \in VersionPool |-> IF table[v] = "deployed" THEN 1 ELSE 0]
    /\ pc = "idle"
    /\ migrations = <<>>
    /\ changelog = NoChangelog
    /\ current_highest_version = None
    /\ err = NoError
    /\ result = NoResult
    /\ runs = 0
    /\ attempted = <<>>
    /\ calls = 0
    /\ previous = NoResult
    /\ startTable = table
    /\ committedRun = {}
    /\ failedAt = None
    /\ execError = NoError
    /\ rollbacks = <<>>
    /\ tx = None
    /\ NoTasks
    /\ NoTokenizer
    /\ NoManager
    /\ NoScan

NextManager ==
    \/ \E v \in VersionPool : begin_version(v)
    \/ \E v \in VersionPool : finish_version(v)
    \/ lowest_version
    \/ highest_version
    \/ list_versions

SpecManager == InitManager /\ [][NextManager]_vars

\* ---------------------------------------- the tokenizer over every text
\* from_shared_string(content) for every text.
InitTok ==
    /\ NoRunner
    /\ tx = None
    /\ NoTasks
    /\ content \in Contents
    /\ position = 0
    /\ state = Normal
    /\ ch = None
    /\ statement = <<>>
    /\ annotation = <<>>
    /\ tpc = "idle"
    /\ emitted = <<>>
    /\ NoManager
    /\ NoScan

\* next() up to the loop: the two empty buffers and the first next_byte().
NextCall ==
    /\ tpc = "idle"
    /\ IF position < Len(content) \/ emitted = <<>>
       THEN TRUE
       ELSE emitted[Len(emitted)] # None
    /\ statement' = <<>>
    /\ annotation' = <<>>
    /\ ch' = NextByte
    /\ position' = Advance
    /\ tpc' = "loop"
    /\ UNCHANGED <<content, state, emitted>>
    /\ UNCHANGED <<runnerVars, tx, execVars, smVars, scanVars>>

\* One iteration: current_char = ch.unwrap(); ch = self.next_byte(); match.
Step ==
    /\ tpc = "loop"
    /\ ch # None
    /\ LET o == Match(state, statement, annotation, ch[1])
       IN  /\ state' = o.state
           /\ statement' = o.statement
           /\ annotation' = o.annotation
           /\ tpc' = IF o.brk THEN "emit" ELSE "loop"
    /\ ch' = NextByte
    /\ position' = Advance
    /\ UNCHANGED <<content, emitted>>
    /\ UNCHANGED <<runnerVars, tx, execVars, smVars, scanVars>>

\* next() returning the bytes of an open comment with the statement.
Emit_FlushesComment ==
    /\ tpc = "emit" \/ (tpc = "loop" /\ ch = None)
    /\ emitted' = Append(emitted, Item(statement \o state.comment, annotation))
    /\ statement' = <<>>
    /\ annotation' = <<>>
    /\ ch' = None
    /\ tpc' = "idle"
    /\ UNCHANGED <<content, position, state>>
    /\ UNCHANGED <<runnerVars, tx, execVars, smVars, scanVars>>

\* After the loop (a break, or ch is None): the value next() returns.
Emit ==
    /\ tpc = "emit" \/ (tpc = "loop" /\ ch = None)
    /\ emitted' = Append(emitted, Item(statement, annotation))
    /\ statement' = <<>>
    /\ annotation' = <<>>
    /\ ch' = None
    /\ tpc' = "idle"
    /\ UNCHANGED <<content, position, state>>
    /\ UNCHANGED <<runnerVars, tx, execVars, smVars, scanVars>>

NextTok ==
    \/ NextCall
    \/ Step
    \/ Emit

SpecTok == InitTok /\ [][NextTok]_vars

\* The tokenizer with progress: a call of next() under way takes its next
\* step, and the consumer (the for loop of execute_changelog_file) calls
\* next() again as long as a call is open to it.
SpecTokFair == InitTok /\ [][NextTok]_vars /\ WF_vars(NextTok)

\* ------------------------------------- the tokenizer over texts of lines
\* The lines changelogs are written with.
AnnotationLine == AnnotationPrefix \o MayFailKey \o KeyValueSeparator \o TrueBytes \o <<LINEFEED>>
CommentLine == <<MINUS, MINUS, SPACE, LETTER, LINEFEED>>
StatementLine == <<LETTER, SEMICOLON, LINEFEED>>

RECURSIVE Concat(_)
Concat(ls) == IF ls = <<>> THEN <<>> ELSE Head(ls) \o Concat(Tail(ls))

\* The texts of at most MaxLines such lines.
LineTexts ==
    {Concat(ls) : ls \in UNION {[1..n -> {AnnotationLine, CommentLine, StatementLine}] :
                                    n \in 1..MaxLines}}

InitLines ==
    /\ NoRunner
    /\ tx = None
    /\ NoTasks
    /\ content \in LineTexts
    /\ position = 0
    /\ state = Normal
    /\ ch = None
    /\ statement = <<>>
    /\ annotation = <<>>
    /\ tpc = "idle"
    /\ emitted = <<>>
    /\ NoManager
    /\ NoScan

SpecLines == InitLines /\ [][NextTok]_vars

\* --------------------------------------------------- the directory scan
\* get_migrations(path) of the `migrations` attribute macro: read_dir yields
\* the entries of the directory, each goes through the filters and the map
\* of the iterator chain, and what is left is collected into the catalog.
\* A file name is a sequence of characters.

\* The decimal digits, `ch >= '0' && ch <= '9'`, in the order of their values.
DigitChars == <<"0", "1", "2", "3", "4", "5", "6", "7", "8", "9">>

IsDigit(c) == \E i \in 1..Len(DigitChars) : DigitChars[i] = c

DigitValue(c) == (CHOOSE i \in 1..Len(DigitChars) : DigitChars[i] = c) - 1

\* ".sql" and "V.sql"
DotSql == <<".", "s", "q", "l">>
VDotSql == <<"V">> \o DotSql

\* u32::MAX, 4294967295, written in decimal.
U32Max == <<"4", "2", "9", "4", "9", "6", "7", "2", "9", "5">>

EndsWith(s, p) == Len(s) >= Len(p) /\ SubSeq(s, Len(s) - Len(p) + 1, Len(s)) = p

\* str::find(pat): the index, from 0, of the first occurrence.
Find(s, c) ==
    LET found == {i \in 1..Len(s) : s[i] = c}
    IN  IF found = {} THEN None
        ELSE Some((CHOOSE i \in found : \A j \in found : i <= j) - 1)

\* &s[a..b]
Slice(s, a, b) == SubSeq(s, a + 1, b)

\* The digits of a number without its leading zeros (u32::to_string of the
\* parsed value).
RECURSIVE Numeral(_)
Numeral(digits) ==
    IF Len(digits) > 1 /\ Head(digits) = "0" THEN Numeral(Tail(digits)) ELSE digits

\* a < b for two numerals.
RECURSIVE NumeralLess(_, _)
NumeralLess(a, b) ==
    IF Len(a) # Len(b) THEN Len(a) < Len(b)
    ELSE IF Len(a) = 0 THEN FALSE
    ELSE IF Head(a) # Head(b) THEN DigitValue(Head(a)) < DigitValue(Head(b))
    ELSE NumeralLess(Tail(a), Tail(b))

\* parse::<u32> that keeps a value above u32::MAX.
ParseU32_NoOverflow(digits) == Some(Numeral(digits))

\* version.parse::<u32>().map(Some).or(Ok(None)) on a non-empty string of
\* digits: the value, None when it is above u32::MAX.
ParseU32(digits) ==
    IF NumeralLess(U32Max, Numeral(digits)) THEN None ELSE Some(Numeral(digits))

MigrationInfo(version, file, name) ==
    [version |-> version, filename |-> file, name |-> name]

\* The closure of the map over the file names that start with "V" and end
\* with ".sql": version and name are cut at the first "_", and a name whose
\* version is empty or does not parse gives None.
ToMigrationInfo(file) ==
    LET index == Find(file, "_")
        cut == /\ index # None
               /\ index[1] > 1
               /\ index[1] < Len(file) - Len(VDotSql)
               /\ \A i \in 1..Len(Slice(file, 1, index[1])) :
                      IsDigit(Slice(file, 1, index[1])[i])
        version == IF cut THEN Slice(file, 1, index[1]) ELSE <<>>
        name == IF cut THEN Slice(file, index[1] + 1, Len(file) - Len(DotSql))
                ELSE <<>>
    IN  IF version = <<>> THEN None
        ELSE LET parsed == ParseU32(version)
             IN  IF parsed = None THEN None
                 ELSE Some(MigrationInfo(parsed[1], file, name))

\* The strings of at most n characters of S.
RECURSIVE StringsUpTo(_, _)
StringsUpTo(S, n) ==
    IF n = 0 THEN {<<>>}
    ELSE LET shorter == StringsUpTo(S, n - 1)
         IN  shorter \cup {Append(s, c) : <<s, c>> \in shorter \X S}

\* What the scan is run on: names put together from a first character, a
\* version part, a separator, a name part and an extension, each of them
\* also missing or malformed.  The version parts are the strings of at most
\* MaxDigits digits, u32::MAX, u32::MAX + 1 and two strings that are not
\* numbers.
VersionParts ==
    StringsUpTo({"0", "7"}, MaxDigits)
        \cup {U32Max, <<"4", "2", "9", "4", "9", "6", "7", "2", "9", "6">>,
              <<"a">>, <<"7", "a">>}

FileNames ==
    {f \in {p \o d \o sep \o n \o e :
                <<p, d, sep, n, e>> \in
                    {<<"V">>, <<>>} \X VersionParts \X {<<"_">>, <<>>}
                        \X {<<>>, <<"a">>, <<"b">>} \X {DotSql, <<>>}} :
        f # <<>>}

\* read_dir yields one more entry: a file name the directory has not had
\* yet, or an entry that is an error or whose name is not UTF-8 (None).
\* The entry goes through the chain and is collected or dropped.
ReadDirEntry ==
    /\ nread < MaxFiles
    /\ nread' = nread + 1
    /\ \E entry \in {None} \cup {Some(f) : f \in FileNames} :
        /\ \A i \in 1..Len(infos) : Some(infos[i].filename) # entry
        /\ filename' = entry
        /\ infos' =
            IF /\ entry # None
               /\ StartsWith(entry[1], <<"V">>)
               /\ EndsWith(entry[1], DotSql)
               /\ ToMigrationInfo(entry[1]) # None
            THEN Append(infos, ToMigrationInfo(entry[1])[1])
            ELSE infos
    /\ UNCHANGED <<runnerVars, tx, execVars, tokVars, smVars>>

InitScan ==
    /\ NoRunner
    /\ tx = None
    /\ NoTasks
    /\ NoTokenizer
    /\ NoManager
    /\ NoScan

NextScan == ReadDirEntry

SpecScan == InitScan /\ [][NextScan]_vars


\* ------------------------------------------------------------ the claims
\* The versions of the store's changelogs.
CatalogVersions == {Parse(store[i].version) : i \in 1..Len(store)}

\* The catalog versions numerically above the high-water mark of table t.
AboveHighest(t) ==
    {v \in CatalogVersions :
        Deployed(t) = {} \/ \A d \in Deployed(t) : v > d}

\* migrate() has returned (at least one call was made).
Returned == pc = "idle" /\ runs > 0

\* C1: within one migrate() call the pending changelogs are attempted
\* (begin_version, then execution) in strictly ascending numeric order of
\* their version, also when the versions differ in their number of digits.
C1_AttemptsAscending ==
    \A i \in 1..Len(attempted) : \A j \in 1..Len(attempted) :
        i < j => attempted[i] < attempted[j]

\* C2: starting from an empty state table, in every reachable state every
\* deployed catalog version is numerically smaller than every catalog
\* version that is not deployed.
C2_NoUndeployedBelowDeployed ==
    \A v \in CatalogVersions : \A w \in CatalogVersions :
        (table[v] = "deployed" /\ table[w] # "deployed") => v < w

\* C3 (as stated): after migrate() returns Ok, list_versions() is the
\* ascending sequence of the versions deployed before the call together with
\* every catalog version that was not deployed before the call.
C3_ListIsDeployedPlusMissing ==
    (Returned /\ result.tag = "Ok") =>
        ListVersionsOf(table) =
            AscendingSeq(Deployed(startTable) \cup CatalogVersions)

\* C3 (amended): after migrate() returns Ok, list_versions() is the ascending
\* sequence of the versions deployed before the call together with every
\* catalog version numerically greater than the highest version deployed
\* before the call (every catalog version when none was deployed).
C3_ListIsDeployedPlusPending ==
    (Returned /\ result.tag = "Ok") =>
        ListVersionsOf(table) =
            AscendingSeq(Deployed(startTable) \cup AboveHighest(startTable))

\* C3 witness: an Ok return of a run that found versions deployed and
\* deployed further ones.
C3_Witness ==
    /\ Returned
    /\ result.tag = "Ok"
    /\ Deployed(startTable) # {}
    /\ Deployed(table) # Deployed(startTable)

\* C4: migrate() is idempotent: a call right after a call that returned
\* Ok(h) makes no begin_version, begin_transaction or execute_changelog_file
\* call and returns Ok(h) as well.
C4_Idempotent ==
    (Returned /\ previous.tag = "Ok" /\ result.tag = "Ok") =>
        (calls = 0 /\ result.value = previous.value)

\* C5: over any sequence of runs in which any call may fail, the SQL of each
\* catalog version is executed and committed at most once.
C5_CommittedAtMostOnce ==
    \A v \in CatalogVersions : committed[v] <= 1

\* C6: no run calls begin_version or execute_changelog_file for a version
\* whose state row has status deployed.
C6_NeverReappliesDeployed ==
    pc \in {"begin_version", "execute_changelog_file"} =>
        table[Version] # "deployed"

\* C6 witness: a run that found versions deployed is about to call
\* begin_version.
C6_Witness ==
    /\ pc = "begin_version"
    /\ Deployed(startTable) # {}

\* C7: whenever the state row of a version is deployed, the transaction that
\* executed its changelog has been committed.
C7_DeployedImpliesCommitted ==
    \A v \in VersionPool : table[v] = "deployed" => committed[v] >= 1

\* C7 witness: a version was deployed in a run in which a later commit or
\* execution did not succeed.
C7_Witness ==
    /\ Returned
    /\ result.tag = "Err"
    /\ Deployed(table) # Deployed(startTable)

\* C8: when migrate() returns, every version committed during the run is
\* deployed, and no version that was not committed has been marked deployed.
C8_CommittedExactlyDeployed ==
    Returned =>
        \A v \in VersionPool :
            /\ v \in committedRun => table[v] = "deployed"
            /\ (table[v] = "deployed" /\ startTable[v] # "deployed")
                   => v \in committedRun

\* C9: if a run fails while executing the changelog of version k, then after
\* the run every catalog version below k that was pending at the start of
\* the run is deployed, and the row of k is not deployed.
C9_FailureLeavesPrefixDeployed ==
    (Returned /\ failedAt # None) =>
        /\ \A v \in AboveHighest(startTable) :
               v < failedAt[1] => table[v] = "deployed"
        /\ table[failedAt[1]] # "deployed"

\* C10: when migrate() returns an error because a changelog failed, the
\* error's last_successful_version() is the highest version deployed at
\* that moment, and None only if no version is deployed.
C10_ErrorCarriesLastDeployed ==
    (Returned /\ result.tag = "Err" /\ failedAt # None) =>
        result.error.last_successful_version = HighestVersionOf(table)

\* C11: when a statement of a changelog is rejected by the database inside
\* execute_changelog_file, the error migrate() returns has kind
\* DatabaseStepFailed.
C11_StatementFailureIsStepFailed ==
    (Returned /\ result.tag = "Err" /\ failedAt # None) =>
        result.error.kind = "MigrationDatabaseStepFailed"

\* C13: when execute_changelog_file fails, migrate() calls
\* rollback_transaction exactly once and returns the execution error
\* unchanged, whether the rollback succeeds or fails.
C13_RollbackOnceErrorKept ==
    (Returned /\ failedAt # None) =>
        /\ Len(rollbacks) = 1
        /\ result = Err(execError)
        /\ execError # NoError

\* C13 witness: migrate() has returned after a failed execution whose
\* rollback failed as well.
C13_Witness ==
    /\ Returned
    /\ failedAt # None
    /\ rollbacks = <<"rollback_err">>

\* C14: when migrate() returns Ok(h), h is the maximum deployed version in
\* the state table at that moment, and None exactly when no version is
\* deployed, also when the pending versions differ in their number of digits.
C14_OkIsHighestDeployed ==
    (Returned /\ result.tag = "Ok") => result.value = HighestVersionOf(table)

\* Task t has returned from `op`, its latest operation.
ReturnedOp(t, op) == task[t].pc = "idle" /\ task[t].op = op

\* C12: when execute_changelog_file runs in an open transaction and the
\* statement the database rejects is annotated may_fail = true, the
\* rejection does not abort the iteration: the statements after it are
\* executed, and if it was the last statement the call returns Ok.
C12_MayFailContinues ==
    \A t \in Tasks :
        ( /\ ReturnedOp(t, "execute_changelog_file")
          /\ task[t].rejected # 0
          /\ task[t].stmts[task[t].rejected] ) =>
            /\ task[t].rejected < Len(task[t].stmts) =>
                    task[t].applied >= task[t].rejected
            /\ task[t].rejected = Len(task[t].stmts) =>
                    task[t].result.tag = "Ok"

\* Task t enters `op` in this step.
Invokes(t, op) ==
    /\ task[t].pc = "idle"
    /\ task'[t].call = ops + 1
    /\ task'[t].op = op

\* C15: an executor operation invoked in a state that does not allow it
\* (begin_transaction with a transaction held; execute_changelog_file,
\* commit_transaction or rollback_transaction with none) returns an error at
\* once, executes no statement, and leaves `tx` and the database's
\* transactions as they were.
C15_DisallowedOpFailsAndKeepsState ==
    [][\A t \in Tasks :
        /\ (Invokes(t, "begin_transaction") /\ tx # None) =>
            /\ tx' = tx
            /\ dbtx' = dbtx
            /\ task'[t].pc = "idle"
            /\ task'[t].result.tag = "Err"
        /\ ( /\ \/ Invokes(t, "execute_changelog_file")
                \/ Invokes(t, "commit_transaction")
                \/ Invokes(t, "rollback_transaction")
             /\ tx = None ) =>
            /\ tx' = None
            /\ dbtx' = dbtx
            /\ task'[t].pc = "idle"
            /\ task'[t].result.tag = "Err"
            /\ task'[t].applied = 0
    ]_vars

\* begin_transaction was refused because a transaction was held, and that
\* transaction is still the one in `tx`.
C15_Witness ==
    \E t \in Tasks :
        /\ ReturnedOp(t, "begin_transaction")
        /\ task[t].saw # Some(None)
        /\ task[t].result.tag = "Err"
        /\ tx = task[t].saw[1]

\* Each task has called begin_transaction once on the new driver, and
\* nothing else has been called.
BothBegan ==
    /\ ops = Cardinality(Tasks)
    /\ \A t \in Tasks : task[t].op = "begin_transaction"

\* C16: when two tasks call begin_transaction on the same idle driver, at
\* most one call succeeds, at most one database transaction is opened, and
\* no open handle is overwritten.
C16_OneBeginWins ==
    BothBegan =>
        /\ Cardinality({t \in Tasks : task[t].result.tag = "Ok"}) <= 1
        /\ Cardinality({k \in DOMAIN dbtx : dbtx[k] # "unopened"}) <= 1
        /\ \A k \in DOMAIN dbtx : dbtx[k] # "dropped"

\* The next iteration of the loop of next() reads byte c.
Reads(c) == tpc = "loop" /\ ch = Some(c)

\* C17: a `;` read in state Quoted never terminates the statement: it is
\* appended to the statement buffer, the state stays Quoted and the loop
\* goes on.
C17_SemicolonInQuotedIsText ==
    [][(Reads(SEMICOLON) /\ state.tag = "Quoted") =>
            /\ statement' = Append(statement, SEMICOLON)
            /\ state' = state
            /\ tpc' = "loop"
    ]_vars

\* The text ';'; has been tokenized into the one statement ';'.
C17_Witness ==
    /\ content = <<SINGLE_QUOTE1, SEMICOLON, SINGLE_QUOTE1, SEMICOLON>>
    /\ tpc = "idle"
    /\ emitted = <<Some([statement |-> <<SINGLE_QUOTE1, SEMICOLON, SINGLE_QUOTE1>>,
                         annotation |-> None]),
                   None>>

\* C18: a quote byte q read in Normal opens Quoted(q); in Quoted(q) the
\* byte q closes the region (back to Normal) and the other two quote bytes
\* leave the state Quoted(q).
C18_QuoteOpensAndClosesItself ==
    [][\A c \in Quotes :
        /\ (Reads(c) /\ state.tag = "Normal") => state' = Quoted(c)
        /\ (Reads(c) /\ state.tag = "Quoted") =>
                state' = IF c = state.q THEN Normal ELSE state
    ]_vars

\* C19: a byte b other than `-` read after a lone `-` has, on the statement
\* with that `-` appended and in the pre-comment state, the effect it has
\* there: for a `;` the statement ends, for a letter both bytes are in the
\* statement and the state is the pre-comment state.
C19_LoneMinusIsKept ==
    [][\A b \in Alphabet \ {MINUS} :
        (Reads(b) /\ state.tag = "Comment" /\ state.comment = <<MINUS>>) =>
            LET o == Match(state.prev[1], Append(statement, MINUS), annotation, b)
            IN  /\ statement' = o.statement
                /\ state' = o.state
                /\ tpc' = IF o.brk THEN "emit" ELSE "loop"
    ]_vars

\* C20: in Escaped(q) the byte read, whatever it is, is appended to the
\* statement, the state returns to Quoted(q) and the loop goes on.
C20_EscapeCoversOneByte ==
    [][\A b \in Alphabet :
        (Reads(b) /\ state.tag = "Escaped") =>
            /\ statement' = Append(statement, b)
            /\ state' = Quoted(state.q)
            /\ tpc' = "loop"
    ]_vars

\* Every call of next() the text allows has returned, the last one None.
TokDone ==
    /\ tpc = "idle"
    /\ position = Len(content)
    /\ emitted # <<>>
    /\ emitted[Len(emitted)] = None

\* The texts made of letters, white space and `;` only.
IsPlain(s) == \A i \in 1..Len(s) : s[i] \in {LETTER, SPACE, LINEFEED, SEMICOLON}

\* The pieces of s between its `;` bytes, the piece after the last `;` last.
RECURSIVE SplitStatements(_)
SplitStatements(s) ==
    IF \A i \in 1..Len(s) : s[i] # SEMICOLON
    THEN <<s>>
    ELSE LET i == SetMin({j \in 1..Len(s) : s[j] = SEMICOLON})
         IN  <<SubSeq(s, 1, i - 1)>> \o SplitStatements(SubSeq(s, i + 1, Len(s)))

\* s is N >= 1 non-empty statements, each terminated by `;`.
IsStatementList(s) ==
    LET pieces == SplitStatements(s)
    IN  /\ IsPlain(s)
        /\ Len(pieces) >= 2
        /\ Trim(pieces[Len(pieces)]) = <<>>
        /\ \A i \in 1..(Len(pieces) - 1) : Trim(pieces[i]) # <<>>

\* The items such a text is to yield: its trimmed statements, then None.
StatementItems(s) ==
    LET pieces == SplitStatements(s)
    IN  [i \in 1..Len(pieces) |->
            IF i < Len(pieces)
            THEN Some([statement |-> Trim(pieces[i]), annotation |-> None])
            ELSE None]

\* C21: a text of N non-empty statements, each terminated by `;`, yields
\* the N trimmed statements in order and then None, whichever byte follows
\* each `;`.
C21_YieldsEveryStatement ==
    (TokDone /\ IsStatementList(content)) => emitted = StatementItems(content)

\* C22: every emitted statement is non-empty and starts and ends with a
\* byte that is not white space.
C22_EmittedStatementsAreTrimmed ==
    \A i \in 1..Len(emitted) :
        emitted[i] # None =>
            LET text == emitted[i][1].statement
            IN  /\ text # <<>>
                /\ ~IsWhitespace(text[1])
                /\ ~IsWhitespace(text[Len(text)])

\* A statement written with white space on both sides was emitted bare.
C22_Witness ==
    /\ content = <<SPACE, LETTER, LINEFEED, SEMICOLON>>
    /\ emitted = <<Some([statement |-> <<LETTER>>, annotation |-> None])>>

\* The statement texts among items, in order.
RECURSIVE StatementTexts(_)
StatementTexts(items) ==
    IF items = <<>> THEN <<>>
    ELSE IF Head(items) = None THEN StatementTexts(Tail(items))
    ELSE <<Head(items)[1].statement>> \o StatementTexts(Tail(items))

\* The texts joined with a `;` between each two.
RECURSIVE JoinStatements(_)
JoinStatements(texts) ==
    IF texts = <<>> THEN <<>>
    ELSE IF Len(texts) = 1 THEN texts[1]
    ELSE texts[1] \o <<SEMICOLON>> \o JoinStatements(Tail(texts))

\* a can be obtained from b by deleting bytes.
RECURSIVE IsSubsequence(_, _)
IsSubsequence(a, b) ==
    IF a = <<>> THEN TRUE
    ELSE IF b = <<>> THEN FALSE
    ELSE IF Head(a) = Head(b) THEN IsSubsequence(Tail(a), Tail(b))
    ELSE IsSubsequence(a, Tail(b))

\* C23: the emitted statement texts, joined in emission order with a `;`
\* between each two, are a subsequence of the text that was read.
C23_NoInventedBytes ==
    IsSubsequence(JoinStatements(StatementTexts(emitted)),
                  SubSeq(content, 1, position))

\* Two statements were emitted and `;` stands between them in the text.
C23_Witness ==
    /\ content = <<LETTER, SEMICOLON, LINEFEED, LETTER>>
    /\ TokDone
    /\ Len(StatementTexts(emitted)) = 2

\* The lines of the text, each with its line feed.
LinesOf(s) ==
    LET pieces == SplitLines(s)
    IN  [i \in 1..(Len(pieces) - 1) |-> Append(pieces[i], LINEFEED)]

\* The annotation lines that stand between line i and the statement line
\* before it.
AnnotationLinesBefore(ls, i) ==
    Cardinality({j \in 1..(i - 1) :
                    /\ ls[j] = AnnotationLine
                    /\ \A k \in j..(i - 1) : ls[k] # StatementLine})

\* C24: in a text of statement lines, `--! may_fail: true` lines and
\* ordinary comment lines, every statement is emitted, in order, and then
\* None; a statement with one annotation line before it is emitted with
\* may_fail = true, and a statement with none before it (whatever went
\* before the previous statement, and whatever comment lines precede it) is
\* emitted without an annotation.
C24_AnnotationGoesToNextStatement ==
    TokDone =>
        LET ls == LinesOf(content)
            at == AscendingSeq({i \in 1..Len(ls) : ls[i] = StatementLine})
        IN  /\ Len(emitted) = Len(at) + 1
            /\ \A k \in 1..Len(at) :
                /\ emitted[k] # None
                /\ emitted[k][1].statement = <<LETTER>>
                /\ AnnotationLinesBefore(ls, at[k]) = 0 =>
                        emitted[k][1].annotation = None
                /\ AnnotationLinesBefore(ls, at[k]) = 1 =>
                        emitted[k][1].annotation = Some([may_fail |-> Some(TRUE)])

\* Of three statements only the second, which follows the annotation line,
\* was emitted with may_fail = true.
C24_Witness ==
    /\ content = StatementLine \o AnnotationLine \o StatementLine \o StatementLine
    /\ TokDone
    /\ emitted = <<Some([statement |-> <<LETTER>>, annotation |-> None]),
                   Some([statement |-> <<LETTER>>,
                         annotation |-> Some([may_fail |-> Some(TRUE)])]),
                   Some([statement |-> <<LETTER>>, annotation |-> None]),
                   None>>

\* C25: at the line feed that ends a `--! ` line, the line's payload and a
\* line separator are appended to the annotation buffer.
C25_PayloadsKeepTheirLines ==
    [][(/\ Reads(LINEFEED)
        /\ state.tag = "Comment"
        /\ StartsWith(TrimStart(state.comment), AnnotationPrefix)) =>
            annotation' =
                annotation
                \o SubSeq(TrimStart(state.comment), 5, Len(TrimStart(state.comment)))
                \o <<LINEFEED>>
    ]_vars

\* The loop of next() has run out of bytes.
AtEndOfInput == tpc = "loop" /\ ch = None

\* C26: when the input ends in Quoted or Escaped, the call returns the
\* bytes collected so far, trimmed, as a statement; when it ends in a `--`
\* comment, every emitted statement is made of bytes that stand before that
\* comment.
C26_EndOfInputEmitsPartial ==
    [][AtEndOfInput =>
        /\ (state.tag \in {"Quoted", "Escaped"} /\ Trim(statement) # <<>>) =>
                /\ Len(emitted') = Len(emitted) + 1
                /\ emitted'[Len(emitted')] # None
                /\ emitted'[Len(emitted')][1].statement = Trim(statement)
        /\ (state.tag = "Comment" /\ Len(state.comment) >= 2) =>
                /\ Len(emitted') = Len(emitted) + 1
                /\ IsSubsequence(
                        JoinStatements(StatementTexts(emitted')),
                        SubSeq(content, 1, Len(content) - Len(state.comment)))
    ]_vars

\* The text 'a ends inside its quoted region and was emitted whole.
C26_Witness ==
    /\ content = <<SINGLE_QUOTE1, LETTER>>
    /\ state = Quoted(SINGLE_QUOTE1)
    /\ emitted = <<Some([statement |-> <<SINGLE_QUOTE1, LETTER>>,
                         annotation |-> None])>>

\* The state manager call `op` returns Ok in this step.
Succeeds(op) ==
    /\ asked' = asked + 1
    /\ answer'.op = op
    /\ answer'.result.tag = "Ok"

\* C27: after begin_version(v) succeeds the row of v is in_progress,
\* whether v had a row before or not, and the rows of the other versions
\* are as before.  (One row per version is the table's primary key.)
C27_BeginVersionUpserts ==
    [][Succeeds("begin_version") =>
        /\ table'[answer'.version] = "in_progress"
        /\ \A u \in VersionPool \ {answer'.version} : table'[u] = table[u]
    ]_vars

\* begin_version succeeded twice: on a version without a row and on a
\* version that had one.
C27_Witness ==
    /\ answer.op = "begin_version"
    /\ answer.result.tag = "Ok"
    /\ answer.before[answer.version] = "absent"
    /\ \E u \in VersionPool :
        /\ u # answer.version
        /\ startTable[u] = "deployed"
        /\ table[u] = "in_progress"

\* C28: after finish_version(v) succeeds the row of v is deployed, whether
\* v had a row before or not.
C28_FinishVersionDeploys ==
    [][Succeeds("finish_version") => table'[answer'.version] = "deployed"]_vars

\* C29: a migrate() that starts with an in_progress row for a pending
\* version v and returns Ok leaves the row of v deployed.
C29_OrphanedRowIsOverwritten ==
    (Returned /\ result.tag = "Ok") =>
        \A v \in AboveHighest(startTable) :
            startTable[v] = "in_progress" => table[v] = "deployed"

\* Such a run has returned.
C29_Witness ==
    /\ Returned
    /\ result.tag = "Ok"
    /\ \E v \in AboveHighest(startTable) :
        /\ startTable[v] = "in_progress"
        /\ table[v] = "deployed"

\* C30: highest_version() and lowest_version() return the largest and the
\* smallest version whose row is deployed, None when no row is deployed;
\* list_versions() returns the versions whose row is deployed, each once,
\* in ascending order of their numbers.
C30_QueriesSeeDeployedOnly ==
    LET rows == {v \in VersionPool : table[v] = "deployed"}
        value == answer.result.value
    IN  answer.result.tag = "Ok" =>
            /\ answer.op \in {"highest_version", "lowest_version"} =>
                IF rows = {} THEN value = None
                ELSE /\ value # None
                     /\ value[1] \in rows
                     /\ answer.op = "highest_version" => \A d \in rows : d <= value[1]
                     /\ answer.op = "lowest_version" => \A d \in rows : value[1] <= d
            /\ answer.op = "list_versions" =>
                /\ {value[i] : i \in 1..Len(value)} = rows
                /\ \A i, j \in 1..Len(value) : i < j => value[i] < value[j]

\* list_versions() answered 2, 10 while version 3 has an in_progress row.
C30_Witness ==
    /\ answer.op = "list_versions"
    /\ answer.result = Ok(<<2, 10>>)
    /\ table[3] = "in_progress"

\* ------------------------------------------------------------ C31 .. C40

\* C31: over any sequence of migrate() runs on a catalog of unique versions a
\* state row, once created, is never deleted, and a row that has reached
\* status deployed never leaves it (deployed is terminal).
C31_RowsStayDeployedIsTerminal ==
    [][\A v \in VersionPool :
          /\ table[v] # "absent" => table'[v] # "absent"
          /\ table[v] = "deployed" => table'[v] = "deployed"]_vars

\* A later run has called begin_version while an earlier run's deployed row
\* is in the table.
C31_Witness ==
    /\ runs > 1
    /\ pc = "begin_transaction"
    /\ \E v \in VersionPool : startTable[v] = "deployed" /\ table[v] = "deployed"

\* C32: for every set of file names in the migrations directory, the catalog
\* the scan builds has no two entries with the same version.
C32_CatalogVersionsUnique ==
    \A i, j \in 1..Len(infos) :
        i # j => infos[i].version # infos[j].version

\* The value of a string of digits.
RECURSIVE DecimalValue(_)
DecimalValue(d) ==
    IF Len(d) = 0 THEN 0
    ELSE 10 * DecimalValue(SubSeq(d, 1, Len(d) - 1)) + DigitValue(d[Len(d)])

\* A number given by its digits, as the pair <<value \div 100000, value % 100000>>.
ValueParts(d) ==
    IF Len(d) <= 5 THEN <<0, DecimalValue(d)>>
    ELSE <<DecimalValue(SubSeq(d, 1, Len(d) - 5)),
           DecimalValue(SubSeq(d, Len(d) - 4, Len(d)))>>

\* The value is at most 4294967295.
FitsU32(d) ==
    LET parts == ValueParts(d)
    IN  parts[1] < 42949 \/ (parts[1] = 42949 /\ parts[2] <= 67295)

\* The version part of a name of the form `V`, one or more digits, `_`, one
\* or more name characters, `.sql`; None for any other name.
VersionPartOf(f) ==
    LET lens == {k \in 1..Len(f) :
                    /\ Len(f) >= 1 + k + 1 + 1 + Len(DotSql)
                    /\ f[1] = "V"
                    /\ \A i \in 2..(k + 1) : IsDigit(f[i])
                    /\ f[k + 2] = "_"
                    /\ SubSeq(f, Len(f) - 3, Len(f)) = DotSql}
    IN  IF lens = {} THEN None
        ELSE Some(SubSeq(f, 2, 1 + CHOOSE k \in lens : TRUE))

\* C33: the scan includes a file exactly when its name is `V`, digits, `_`,
\* name characters, `.sql` and the digits are a 32-bit unsigned integer; the
\* entry's version is the value of the digits, written without leading
\* zeros; every other entry is left out and the scan goes on.
C33_ScanIncludesExactlyVersionedSqlFiles ==
    /\ \A i \in 1..Len(infos) :
        LET part == VersionPartOf(infos[i].filename)
        IN  /\ part # None
            /\ FitsU32(part[1])
            /\ ValueParts(infos[i].version) = ValueParts(part[1])
            /\ Len(infos[i].version) > 1 => Head(infos[i].version) # "0"
    /\ filename # None =>
        LET part == VersionPartOf(filename[1])
        IN  (part # None /\ FitsU32(part[1]))
                => \E i \in 1..Len(infos) : infos[i].filename = filename[1]

\* V07_a.sql was read after an entry that was left out, and is in the catalog
\* as version 7.
C33_Witness ==
    /\ nread = 2
    /\ filename = Some(<<"V", "0", "7", "_", "a">> \o DotSql)
    /\ infos = <<MigrationInfo(<<"7">>, filename[1], <<"a">>)>>

\* The step takes migrate() from somewhere else to position p.
Reaches(p) == pc # p /\ pc' = p

\* The step makes migrate() return an error.
ReturnsErr == pc # "idle" /\ pc' = "idle" /\ result'.tag = "Err"

\* C34: for every changelog migrate() attempts the calls are made in the
\* order begin_version, begin_transaction, execute_changelog_file, then
\* commit_transaction and finish_version when the execution succeeded or
\* rollback_transaction when it failed; commit_transaction is never called
\* after a failed execution, a transaction that was begun is ended by one
\* commit or rollback before the next begin_transaction, and begin_version
\* of the next changelog follows finish_version of the current one.
C34_CallsInOrder ==
    [][/\ Reaches("begin_version") =>
            /\ pc \in {"highest_version", "finish_version"}
            /\ pc = "finish_version" => table'[Version] = "deployed"
       /\ Reaches("begin_transaction") =>
            pc = "begin_version" /\ changelog' = changelog
       /\ Reaches("execute_changelog_file") =>
            pc = "begin_transaction" /\ changelog' = changelog
       /\ pc = "execute_changelog_file" =>
            pc' \in {"commit_transaction", "rollback_transaction"}
       /\ Reaches("commit_transaction") =>
            /\ pc = "execute_changelog_file"
            /\ failedAt' = None
            /\ changelog' = changelog
       /\ Reaches("rollback_transaction") =>
            /\ pc = "execute_changelog_file"
            /\ failedAt' = Some(Version)
       /\ Reaches("finish_version") =>
            pc = "commit_transaction" /\ changelog' = changelog
       /\ pc = "begin_transaction" => tx = None
       /\ (tx = None /\ tx' # None) => pc = "begin_transaction"
       /\ (tx # None /\ tx' = None) =>
            pc \in {"commit_transaction", "rollback_transaction"}
       /\ (tx # None /\ tx' # None) => pc = "execute_changelog_file"]_vars

\* The second changelog of a run has been committed and finish_version is
\* next.
C34_Witness ==
    /\ pc = "finish_version"
    /\ Len(attempted) = 2

\* C35: every error aborts migrate() at once.  A failed prepare() or
\* highest_version() returns before any begin_version, begin_transaction or
\* execute_changelog_file call; a begin_version, begin_transaction, commit or
\* finish_version that has not done its work returns the error in the same
\* step; a failed execution is followed by the rollback and the return; and
\* after the return nothing is called until the caller invokes migrate()
\* again.
C35_ErrorsAbortAtOnce ==
    [][/\ (pc = "prepare" /\ pc' # "highest_version") =>
            ReturnsErr /\ calls' = 0 /\ attempted' = <<>>
       /\ (pc = "highest_version" /\ pc' # "begin_version" /\ result'.tag # "Ok") =>
            ReturnsErr /\ calls' = 0 /\ attempted' = <<>>
       /\ (pc = "begin_version" /\ table'[Version] # "in_progress") => ReturnsErr
       /\ (pc = "begin_transaction" /\ tx' = None) => ReturnsErr
       /\ (pc = "execute_changelog_file" /\ failedAt' # None) =>
            pc' = "rollback_transaction"
       /\ pc = "rollback_transaction" =>
            ReturnsErr /\ attempted' = attempted /\ calls' = calls
       /\ (pc = "commit_transaction" /\ committed' = committed) => ReturnsErr
       /\ (pc = "finish_version" /\ table'[Version] # "deployed") => ReturnsErr
       /\ pc = "idle" =>
            /\ pc' = "prepare"
            /\ runs' = runs + 1
            /\ table' = table /\ tx' = tx /\ committed' = committed]_vars

\* migrate() has returned an error of a call other than the execution, and a
\* changelog of the catalog was left without any call.
C35_Witness ==
    /\ Returned
    /\ result.tag = "Err"
    /\ attempted # <<>>
    /\ failedAt = None
    /\ \E v \in CatalogVersions :
        /\ \A i \in 1..Len(attempted) : attempted[i] # v
        /\ table[v] = "absent"

\* C36: migrate() attempts the catalog entries whose version is numerically
\* greater than the highest deployed version read at the start of the run
\* (all of them when nothing is deployed), every one of them when it returns
\* Ok; a version not above that mark is never attempted, whatever its row.
C36_AttemptsExactlyAboveHighWaterMark ==
    LET tried == {attempted[i] : i \in 1..Len(attempted)}
    IN  /\ tried \subseteq AboveHighest(startTable)
        /\ (Returned /\ result.tag = "Ok") => tried = AboveHighest(startTable)

\* A run returned Ok after attempting a version, and left alone a version
\* below the high-water mark whose row is in_progress.
C36_Witness ==
    /\ Returned
    /\ result.tag = "Ok"
    /\ attempted # <<>>
    /\ \E v \in CatalogVersions \ AboveHighest(startTable) :
        startTable[v] = "in_progress" /\ table[v] = "in_progress"

\* C37: whenever migrate() returns Ok, every version of the catalog has
\* status deployed in the state table, after every sequence of earlier runs
\* on the same database that started from an empty state table.
C37_OkMeansAllDeployed ==
    (Returned /\ result.tag = "Ok") =>
        \A v \in CatalogVersions : table[v] = "deployed"

\* C38: when migrate() returns, with Ok or with any error, the executor holds
\* no transaction, so that the next migrate() can begin one; commit_transaction
\* and rollback_transaction leave the executor without a transaction also
\* when the database fails to commit or to roll back.
C38_ExecutorIdleOnReturn ==
    [][/\ pc' = "idle" => tx' = None
       /\ pc \in {"commit_transaction", "rollback_transaction"} => tx' = None
       /\ (pc = "begin_transaction" /\ tx' = None) =>
            result'.error = migration_versioning_failed]_vars

\* A later run has begun a transaction for a version on which an earlier run
\* had failed.
C38_Witness ==
    /\ runs > 1
    /\ pc = "execute_changelog_file"
    /\ tx # None
    /\ startTable[Version] = "in_progress"

\* Every `;` of s that is not its last byte is followed by white space.
SemicolonsBeforeWhitespace(s) ==
    \A i \in 1..(Len(s) - 1) : s[i] = SEMICOLON => IsWhitespace(s[i + 1])

\* The non-empty statements of a plain text as items, in the order of the text.
NonEmptyItems(s) ==
    LET pieces == SplitStatements(s)
        kept == SelectSeq(pieces, LAMBDA piece : Trim(piece) # <<>>)
    IN  [i \in 1..Len(kept) |->
            Some([statement |-> Trim(kept[i]), annotation |-> None])]

\* C39: an empty or whitespace-only statement is skipped without ending the
\* iteration: when next() returns None for the first time, every non-empty
\* statement of the text has been yielded.  Stated for the texts of letters,
\* white space and `;` in which white space follows every `;`.
C39_EmptyStatementIsSkipped ==
    LET nones == {k \in 1..Len(emitted) : emitted[k] = None}
    IN  (IsPlain(content) /\ SemicolonsBeforeWhitespace(content) /\ nones # {}) =>
            SubSeq(emitted, 1, SetMin(nones) - 1) = NonEmptyItems(content)

\* C40: the tokenizer is total and finite: the read position never decreases
\* and never exceeds the length of the input, every call of next() returns,
\* and after finitely many calls next() returns None.
C40_TokenizerIsTotalAndFinite ==
    /\ [][position' >= position /\ position' <= Len(content)]_vars
    /\ [](position <= Len(content))
    /\ (tpc # "idle") ~> (tpc = "idle")
    /\ <>(emitted # <<>> /\ emitted[Len(emitted)] = None)

\* The whole of a text of MaxLen bytes has been read by three calls, the
\* last of which returned None.
C40_Witness ==
    /\ TokDone
    /\ Len(content) = MaxLen
    /\ Len(emitted) = 3

====
